---- MODULE Spec2Model ----
(***************************************************************************)
(* Model of typeshed_examples/transform_old_to_new.py: the batch loop that *)
(* parses each fragment with libcst, rewrites Callable[...] subscripts     *)
(* with CallableToCallableSyntaxTransformer, serializes the tree and       *)
(* applies the two string replacements.                                    *)
(*                                                                         *)
(* Text is a sequence of one-character strings.  A syntax tree is a record *)
(* shaped like the libcst node it stands for (type, value, slice,          *)
(* elements, comma, ...).                                                  *)
(***************************************************************************)
EXTENDS Integers, Sequences, FiniteSets, TLC

VARIABLES lines, i, pc, _current_line, original_tree, transformed_tree,
          raw_transformed_line, transformed_line, transformed_lines,
          tb, stdout, output_file

vars == <<lines, i, pc, _current_line, original_tree, transformed_tree,
          raw_transformed_line, transformed_line, transformed_lines,
          tb, stdout, output_file>>

\* ------------------------------------------------------------------ bounds
MaxLines == 3
MaxParams == 3
MaxSlices == 3

\* ------------------------------------------------------------------- text
None == [type |-> "None"]

S_Callable == <<"C", "a", "l", "l", "a", "b", "l", "e">>
S_Concatenate == <<"C", "o", "n", "c", "a", "t", "e", "n", "a", "t", "e">>
S_Optional == <<"O", "p", "t", "i", "o", "n", "a", "l">>
S_int == <<"i", "n", "t">>
S_str == <<"s", "t", "r">>
S_Marker == <<"'", "*", "*", "'">>
S_Ellipsis == <<".", ".", ".">>
S_Newline == <<"\n">>

\* ------------------------------------------------------- libcst node kinds
\* Every expression node carries lpar: TRUE when the node is wrapped in one
\* pair of parentheses (libcst's lpar/rpar).
Name(v) == [type |-> "Name", value |-> v, lpar |-> FALSE]
Ellipsis(par) == [type |-> "Ellipsis", lpar |-> par]
SimpleString(v) == [type |-> "SimpleString", value |-> v, lpar |-> FALSE]
Element(v, c) == [value |-> v, comma |-> c]
Tuple(es) == [type |-> "Tuple", elements |-> es, lpar |-> TRUE]
List(es) == [type |-> "List", elements |-> es, lpar |-> FALSE]
Index(v) == [value |-> v]
SubscriptElement(s, c) == [slice |-> s, comma |-> c]
Subscript(v, sl) == [type |-> "Subscript", value |-> v, slice |-> sl, lpar |-> FALSE]
Add(before, after) == [type |-> "Add", whitespace_before |-> before, whitespace_after |-> after]
BinaryOperation(l, op, r) ==
    [type |-> "BinaryOperation", left |-> l, operator |-> op, right |-> r, lpar |-> FALSE]
EmptyBody == [type |-> "EmptyBody", lpar |-> FALSE]
Module(b, nl) == [type |-> "Module", body |-> b, has_trailing_newline |-> nl]

\* An exception travelling up the call stack.
Raise(exc) == [type |-> "Exception", exc |-> exc]
IsException(x) == x.type = "Exception"

\* --------------------------------------------------------------- codegen
\* Comma fields: "DEFAULT" is MaybeSentinel.DEFAULT, "COMMA_SPACE" is a
\* parsed Comma followed by one space, "COMMA" a parsed Comma followed by
\* nothing.
CodegenComma(comma, default_comma, default_comma_whitespace) ==
    CASE comma = "COMMA_SPACE" -> <<",", " ">>
      [] comma = "COMMA" -> <<",">>
      [] OTHER -> IF default_comma
                  THEN (IF default_comma_whitespace THEN <<",", " ">> ELSE <<",">>)
                  ELSE <<>>

Parenthesize(lpar, text) == IF lpar THEN <<"(">> \o text \o <<")">> ELSE text

RECURSIVE Codegen(_), CodegenElements(_, _, _), CodegenSlices(_, _)

CodegenElements(es, idx, single) ==
    IF idx > Len(es) THEN <<>>
    ELSE Codegen(es[idx].value)
         \o CodegenComma(es[idx].comma,
                         IF single THEN TRUE ELSE idx < Len(es),
                         ~single)
         \o CodegenElements(es, idx + 1, single)

CodegenSlices(sl, idx) ==
    IF idx > Len(sl) THEN <<>>
    ELSE Codegen(sl[idx].slice.value)
         \o CodegenComma(sl[idx].comma, idx < Len(sl), TRUE)
         \o CodegenSlices(sl, idx + 1)

Codegen(n) ==
    CASE n.type = "Name" -> Parenthesize(n.lpar, n.value)
      [] n.type = "Ellipsis" -> Parenthesize(n.lpar, S_Ellipsis)
      [] n.type = "SimpleString" -> Parenthesize(n.lpar, n.value)
      [] n.type = "Tuple" ->
            Parenthesize(n.lpar,
                CodegenElements(n.elements, 1, Len(n.elements) = 1))
      [] n.type = "List" ->
            Parenthesize(n.lpar,
                <<"[">> \o CodegenElements(n.elements, 1, FALSE) \o <<"]">>)
      [] n.type = "Subscript" ->
            Parenthesize(n.lpar,
                Codegen(n.value) \o <<"[">> \o CodegenSlices(n.slice, 1) \o <<"]">>)
      [] n.type = "BinaryOperation" ->
            Parenthesize(n.lpar,
                Codegen(n.left) \o n.operator.whitespace_before \o <<"+">>
                \o n.operator.whitespace_after \o Codegen(n.right))
      [] n.type = "EmptyBody" -> <<>>
      [] n.type = "Module" ->
            Codegen(n.body) \o (IF n.has_trailing_newline THEN S_Newline ELSE <<>>)

\* ---------------------------------------------------------------- parser
\* libcst.parse_module on the grammar the fragments use: names, "...",
\* quoted strings, parenthesized expressions and tuples, bracketed lists,
\* subscripts and "+", with at most one pair of parentheses around an
\* expression and at most one space after a comma or around "+".  A parse
\* step returns [ok, node, pos]: pos is the position after what was read.
Letters == {"a", "b", "c", "d", "e", "f", "g", "h", "i", "j", "k", "l", "m",
            "n", "o", "p", "q", "r", "s", "t", "u", "v", "w", "x", "y", "z",
            "A", "B", "C", "D", "E", "F", "G", "H", "I", "J", "K", "L", "M",
            "N", "O", "P", "Q", "R", "S", "T", "U", "V", "W", "X", "Y", "Z",
            "_"}

At(s, p) == IF p >= 1 /\ p <= Len(s) THEN s[p] ELSE "EOF"
Fail == [ok |-> FALSE]
Ok(node, pos) == [ok |-> TRUE, node |-> node, pos |-> pos]

RECURSIVE NameEnd(_, _)
NameEnd(s, p) == IF At(s, p) \in Letters THEN NameEnd(s, p + 1) ELSE p

RECURSIVE StringEnd(_, _)
\* position of the closing quote of a string whose body starts at p; 0 if none
StringEnd(s, p) ==
    IF p > Len(s) THEN 0
    ELSE IF s[p] = "'" THEN p ELSE StringEnd(s, p + 1)

RECURSIVE ParseExpr(_, _), ParseAtom(_, _), ParsePostfix(_, _, _),
          ParseBinTail(_, _, _), ParseElems(_, _, _, _)

\* comma-separated expressions up to the closing character
ParseElems(s, p, close, acc) ==
    IF At(s, p) = close
    THEN Ok(acc, p + 1)
    ELSE LET e == ParseExpr(s, p) IN
         IF ~e.ok THEN Fail
         ELSE IF At(s, e.pos) = close
              THEN Ok(Append(acc, Element(e.node, "DEFAULT")), e.pos + 1)
         ELSE IF At(s, e.pos) = ","
              THEN IF At(s, e.pos + 1) = " "
                   THEN ParseElems(s, e.pos + 2, close,
                                   Append(acc, Element(e.node, "COMMA_SPACE")))
                   ELSE ParseElems(s, e.pos + 1, close,
                                   Append(acc, Element(e.node, "COMMA")))
         ELSE Fail

ParseAtom(s, p) ==
    LET c == At(s, p) IN
    IF c \in Letters
    THEN Ok(Name(SubSeq(s, p, NameEnd(s, p) - 1)), NameEnd(s, p))
    ELSE IF c = "."
    THEN IF At(s, p + 1) = "." /\ At(s, p + 2) = "."
         THEN Ok(Ellipsis(FALSE), p + 3) ELSE Fail
    ELSE IF c = "'"
    THEN LET q == StringEnd(s, p + 1) IN
         IF q = 0 THEN Fail ELSE Ok(SimpleString(SubSeq(s, p, q)), q + 1)
    ELSE IF c = "["
    THEN LET r == ParseElems(s, p + 1, "]", <<>>) IN
         IF ~r.ok THEN Fail ELSE Ok(List(r.node), r.pos)
    ELSE IF c = "("
    THEN LET r == ParseElems(s, p + 1, ")", <<>>) IN
         IF ~r.ok THEN Fail
         ELSE IF Len(r.node) = 1 /\ r.node[1].comma = "DEFAULT"
              THEN \* a parenthesized expression; one level of parentheses
                   IF r.node[1].value.lpar THEN Fail
                   ELSE Ok([r.node[1].value EXCEPT !.lpar = TRUE], r.pos)
              ELSE Ok(Tuple(r.node), r.pos)
    ELSE Fail

ParsePostfix(s, p, node) ==
    IF At(s, p) # "[" THEN Ok(node, p)
    ELSE LET r == ParseElems(s, p + 1, "]", <<>>) IN
         IF ~r.ok \/ Len(r.node) = 0 THEN Fail
         ELSE ParsePostfix(s, r.pos,
                  Subscript(node,
                      [k \in 1..Len(r.node) |->
                          SubscriptElement(Index(r.node[k].value), r.node[k].comma)]))

ParseBinTail(s, p, left) ==
    LET before == IF At(s, p) = " " THEN <<" ">> ELSE <<>>
        q == p + Len(before)
    IN  IF At(s, q) # "+" THEN (IF before = <<>> THEN Ok(left, p) ELSE Fail)
        ELSE LET after == IF At(s, q + 1) = " " THEN <<" ">> ELSE <<>>
                 a == ParseAtom(s, q + 1 + Len(after))
                 r == IF a.ok THEN ParsePostfix(s, a.pos, a.node) ELSE Fail
             IN  IF ~r.ok THEN Fail
                 ELSE ParseBinTail(s, r.pos,
                          BinaryOperation(left, Add(before, after), r.node))

ParseExpr(s, p) ==
    LET a == ParseAtom(s, p)
        r == IF a.ok THEN ParsePostfix(s, a.pos, a.node) ELSE Fail
    IN  IF ~r.ok THEN Fail ELSE ParseBinTail(s, r.pos, r.node)

parse_module(line) ==
    LET nl == Len(line) > 0 /\ line[Len(line)] = "\n"
        body == IF nl THEN SubSeq(line, 1, Len(line) - 1) ELSE line
        e == ParseExpr(body, 1)
    IN  IF body = <<>> THEN Module(EmptyBody, nl)
        ELSE IF e.ok /\ e.pos = Len(body) + 1 THEN Module(e.node, nl)
        ELSE Raise("ParserSyntaxError")

\* ----------------------------------------------------------- transformer
\* libcst.matchers.matches(node, libcst.matchers.Name(value)): the node is
\* a Name with that value, whatever its parentheses.
MatchesName(node, value) == node.type = "Name" /\ node.value = value

\* variant: the List branch keeps the list as the left operand
callable_to_new_syntax_as_string_ListKept(parameters, return_type) ==
    LET transformed_parameters ==
            IF parameters.type = "Name"
            THEN Tuple(<<Element(SimpleString(S_Marker), "DEFAULT"),
                         Element(parameters, "DEFAULT")>>)
            ELSE IF parameters.type \in {"Tuple", "List"}
            THEN parameters
            ELSE IF parameters.type = "Ellipsis"
            THEN Ellipsis(TRUE)
            ELSE Raise("RuntimeError")
    IN  IF IsException(transformed_parameters)
        THEN transformed_parameters
        ELSE BinaryOperation(transformed_parameters, Add(<<" ">>, <<" ">>), return_type)

\* variant: there is no List branch
callable_to_new_syntax_as_string_NoList(parameters, return_type) ==
    LET transformed_parameters ==
            IF parameters.type = "Name"
            THEN Tuple(<<Element(SimpleString(S_Marker), "DEFAULT"),
                         Element(parameters, "DEFAULT")>>)
            ELSE IF parameters.type = "Tuple"
            THEN parameters
            ELSE IF parameters.type = "Ellipsis"
            THEN Ellipsis(TRUE)
            ELSE Raise("RuntimeError")
    IN  IF IsException(transformed_parameters)
        THEN transformed_parameters
        ELSE BinaryOperation(transformed_parameters, Add(<<" ">>, <<" ">>), return_type)

callable_to_new_syntax_as_string(parameters, return_type) ==
    LET transformed_parameters ==
            IF parameters.type = "Name"
            THEN Tuple(<<Element(SimpleString(S_Marker), "DEFAULT"),
                         Element(parameters, "DEFAULT")>>)
            ELSE IF parameters.type = "Tuple"
            THEN parameters
            ELSE IF parameters.type = "Ellipsis"
            THEN Ellipsis(TRUE)
            ELSE IF parameters.type = "List"
            THEN Tuple(parameters.elements)
            ELSE Raise("RuntimeError")
    IN  IF IsException(transformed_parameters)
        THEN transformed_parameters
        ELSE BinaryOperation(transformed_parameters, Add(<<" ">>, <<" ">>), return_type)

\* variant: the Callable test matches a subscript of any name
leave_Subscript_AnyName(original_node, updated_node) ==
    IF MatchesName(updated_node.value, S_Concatenate)
    THEN Raise("NotImplementedError")
    ELSE IF updated_node.value.type = "Name"
    THEN IF Len(updated_node.slice) < 2
         THEN Raise("IndexError")
         ELSE callable_to_new_syntax_as_string(
                  updated_node.slice[1].slice.value,
                  updated_node.slice[2].slice.value)
    ELSE original_node

\* variant: Concatenate is not tested for and passes through
leave_Subscript_NoConcatenate(original_node, updated_node) ==
    IF MatchesName(updated_node.value, S_Callable)
    THEN IF Len(updated_node.slice) < 2
         THEN Raise("IndexError")
         ELSE callable_to_new_syntax_as_string(
                  updated_node.slice[1].slice.value,
                  updated_node.slice[2].slice.value)
    ELSE original_node

leave_Subscript(original_node, updated_node) ==
    IF MatchesName(updated_node.value, S_Concatenate)
    THEN Raise("NotImplementedError")
    ELSE IF MatchesName(updated_node.value, S_Callable)
    THEN IF Len(updated_node.slice) < 2
         THEN Raise("IndexError")
         ELSE callable_to_new_syntax_as_string(
                  updated_node.slice[1].slice.value,
                  updated_node.slice[2].slice.value)
    ELSE original_node

\* CSTNode.visit: the children are visited in source order, the first
\* exception ends the traversal, and the node's leave_ method (only
\* Subscript has one) gets the original node and the node with its
\* children replaced.
RECURSIVE Visit(_), VisitElements(_, _, _), VisitSlices(_, _, _)

VisitElements(es, idx, acc) ==
    IF idx > Len(es) THEN [type |-> "Sequence", seq |-> acc]
    ELSE LET v == Visit(es[idx].value) IN
         IF IsException(v) THEN v
         ELSE VisitElements(es, idx + 1, Append(acc, Element(v, es[idx].comma)))

VisitSlices(sl, idx, acc) ==
    IF idx > Len(sl) THEN [type |-> "Sequence", seq |-> acc]
    ELSE LET v == Visit(sl[idx].slice.value) IN
         IF IsException(v) THEN v
         ELSE VisitSlices(sl, idx + 1,
                          Append(acc, SubscriptElement(Index(v), sl[idx].comma)))

Visit(n) ==
    CASE n.type \in {"Tuple", "List"} ->
            LET es == VisitElements(n.elements, 1, <<>>) IN
            IF IsException(es) THEN es ELSE [n EXCEPT !.elements = es.seq]
      [] n.type = "BinaryOperation" ->
            LET l == Visit(n.left) IN
            IF IsException(l) THEN l
            ELSE LET r == Visit(n.right) IN
                 IF IsException(r) THEN r
                 ELSE [n EXCEPT !.left = l, !.right = r]
      [] n.type = "Subscript" ->
            LET v == Visit(n.value) IN
            IF IsException(v) THEN v
            ELSE LET sl == VisitSlices(n.slice, 1, <<>>) IN
                 IF IsException(sl) THEN sl
                 ELSE leave_Subscript(n, [n EXCEPT !.value = v, !.slice = sl.seq])
      [] n.type = "Module" ->
            LET b == Visit(n.body) IN
            IF IsException(b) THEN b ELSE [n EXCEPT !.body = b]
      [] OTHER -> n

\* -------------------------------------------------------------- finalizer
\* str.replace: every non-overlapping occurrence, left to right.
RECURSIVE Replace(_, _, _)
Replace(s, old, new) ==
    IF Len(s) < Len(old) THEN s
    ELSE IF SubSeq(s, 1, Len(old)) = old
         THEN new \o Replace(SubSeq(s, Len(old) + 1, Len(s)), old, new)
         ELSE <<Head(s)>> \o Replace(Tail(s), old, new)

\* variant: the first replacement takes the quoted marker without the
\* comma and the space after it
Finalize_MarkerOnly(raw) ==
    Replace(Replace(raw, S_Marker, <<"*", "*">>), <<"+">>, <<"-", ">">>)

Finalize(raw) ==
    Replace(Replace(raw, S_Marker \o <<",", " ">>, <<"*", "*">>), <<"+">>, <<"-", ">">>)

\* ------------------------------------------------------- input fragments
\* The fragments the batch is run on: syntax trees written the way
\* parse_module builds them (a comma and one space between elements, none
\* after the last, a bare comma in a one-element tuple), turned into text.
SeqsUpTo(S, n) == UNION {[1..k -> S] : k \in 0..n}

Elems(vs) ==
    [k \in 1..Len(vs) |->
        Element(vs[k], IF k < Len(vs) THEN "COMMA_SPACE" ELSE "DEFAULT")]
TupleElems(vs) ==
    IF Len(vs) = 1 THEN <<Element(vs[1], "COMMA")>> ELSE Elems(vs)
Slices(vs) ==
    [k \in 1..Len(vs) |->
        SubscriptElement(Index(vs[k]),
                         IF k < Len(vs) THEN "COMMA_SPACE" ELSE "DEFAULT")]

TypeNames == {Name(S_int), Name(S_str)}
Leaf == TypeNames \cup {Ellipsis(FALSE)}
Heads == {Name(S_Callable), Name(S_Concatenate), Name(S_Optional)}

Lists(S) == {List(Elems(vs)) : vs \in SeqsUpTo(S, MaxParams)}
Tuples(S) == {Tuple(TupleElems(vs)) : vs \in SeqsUpTo(S, MaxParams)}
ParamForms == Leaf \cup Lists(TypeNames) \cup Tuples(TypeNames)

Subs(H, First, Rest) ==
    {Subscript(h, Slices(<<f>> \o r)) : h \in H, f \in First, r \in Rest}

\* subscripts of names, "...", lists and tuples, one to MaxSlices slices
Sub1 == Subs(Heads, ParamForms, SeqsUpTo(TypeNames, MaxSlices - 1))

\* the subscripts that are nested inside another one
Inner == Subs(Heads, {Name(S_int), Ellipsis(FALSE), List(Elems(<<Name(S_int)>>))},
              SeqsUpTo({Name(S_str)}, 1))

Sub2 ==
    Subs(Heads, Inner, SeqsUpTo(TypeNames \cup Inner, 1))
    \cup Subs(Heads, TypeNames, {<<n>> : n \in Inner})
    \cup Subs(Heads, {List(Elems(<<n>>)) : n \in Inner}
                     \cup {Tuple(TupleElems(<<n>>)) : n \in Inner}
                     \cup {List(Elems(<<t, n>>)) : t \in TypeNames, n \in Inner},
              {<<t>> : t \in TypeNames})
    \cup Subs(Heads, {List(Elems(<<t>>)) : t \in TypeNames}, {<<n>> : n \in Inner})

\* fragments that already hold a "+" or the quoted marker, and
\* parenthesized names
Marked ==
    {BinaryOperation(a, Add(sp, sp), b) :
        a \in TypeNames, b \in TypeNames, sp \in {<<>>, <<" ">>}}
    \cup {Tuple(<<Element(SimpleString(S_Marker), "COMMA_SPACE"),
                  Element(t, "DEFAULT")>>) : t \in TypeNames}
    \cup {Subscript(h, Slices(<<BinaryOperation(Name(S_int), Add(<<" ">>, <<" ">>),
                                                Name(S_str)), t>>)) :
            h \in Heads, t \in TypeNames}
    \cup {Subscript(Name(S_Optional),
                    Slices(<<SimpleString(S_Marker), t>>)) : t \in TypeNames}
    \cup {Subscript(h, Slices(<<[t EXCEPT !.lpar = TRUE], Name(S_str)>>)) :
            h \in Heads, t \in Leaf}

SingleExprs == ParamForms \cup Sub1 \cup Sub2 \cup Marked

DropLast(s) == SubSeq(s, 1, Len(s) - 1)

\* text that does not parse: a closing bracket is missing, or one too many
BadTexts ==
    {DropLast(Codegen(e)) \o S_Newline : e \in Inner}
    \cup {Codegen(e) \o <<"]">> \o S_Newline : e \in Inner}

SingleTexts ==
    {Codegen(Module(e, TRUE)) : e \in SingleExprs}
    \cup {Codegen(Module(e, FALSE)) : e \in ParamForms}
    \cup {S_Newline}
    \cup BadTexts

BatchExprs ==
    {Name(S_int)} \cup Subs(Heads, {Ellipsis(FALSE)}, SeqsUpTo({Name(S_int)}, 1))

BatchTexts ==
    {Codegen(Module(e, TRUE)) : e \in BatchExprs}
    \cup {DropLast(Codegen(Subscript(Name(S_Callable), Slices(<<Ellipsis(FALSE)>>))))
          \o S_Newline}

Inputs == SeqsUpTo(BatchTexts, MaxLines) \cup {<<t>> : t \in SingleTexts}

\* --------------------------------------------------------- the batch loop
NoText == <<"None">>
NoTraceback == [type |-> "None"]
Traceback(exc) == [type |-> "traceback", exc |-> exc]

RECURSIVE Concat(_)
Concat(ss) == IF ss = <<>> THEN <<>> ELSE Head(ss) \o Concat(Tail(ss))

Init ==
    /\ lines \in Inputs
    /\ i = 0
    /\ pc = "for"
    /\ _current_line = NoText
    /\ original_tree = None
    /\ transformed_tree = None
    /\ raw_transformed_line = NoText
    /\ transformed_line = NoText
    /\ transformed_lines = <<>>
    /\ tb = NoTraceback
    /\ stdout = <<>>
    /\ output_file = NoText

\* what the visit of the parsed line gives: a tree, or the exception that
\* parse_module or the transformer raised
VisitLine(line) ==
    CHOOSE v \in {IF IsException(tree) THEN tree ELSE Visit(tree) :
                     tree \in {parse_module(line)}} : TRUE

\* the statements of the try block, as far as they get: the parsed tree,
\* the visited tree and the two texts, or the exception raised on the way
TryBlock(line) ==
    CHOOSE r \in
        {[original_tree |-> tree,
          transformed_tree |-> visited,
          raw_transformed_line |->
              IF IsException(visited) THEN NoText ELSE Codegen(visited)] :
            tree \in {parse_module(line)},
            visited \in {VisitLine(line)}} : TRUE

\* one pass through the try block that reaches its last statement
TryCompletes ==
    /\ pc = "for"
    /\ i < Len(lines)
    /\ \E r \in {TryBlock(lines[i + 1])} :
          /\ ~IsException(r.transformed_tree)
          /\ _current_line' = lines[i + 1]
          /\ original_tree' = r.original_tree
          /\ transformed_tree' = r.transformed_tree
          /\ raw_transformed_line' = r.raw_transformed_line
          /\ \E final \in {Finalize(r.raw_transformed_line)} :
                /\ transformed_line' = final
                /\ transformed_lines' = Append(transformed_lines, final)
                /\ stdout' = stdout \o <<lines[i + 1], final, <<>>>>
    /\ i' = i + 1
    /\ pc' = "for"
    /\ UNCHANGED <<lines, tb, output_file>>

\* variant: the except clause also appends the line as it was read
TryRaises_AppendsLine ==
    /\ pc = "for"
    /\ i < Len(lines)
    /\ \E r \in {TryBlock(lines[i + 1])} :
          /\ IsException(r.transformed_tree)
          /\ _current_line' = lines[i + 1]
          /\ original_tree' = IF IsException(r.original_tree)
                              THEN original_tree ELSE r.original_tree
          /\ tb' = Traceback(r.transformed_tree.exc)
          /\ stdout' = Append(stdout, lines[i + 1])
          /\ transformed_lines' = Append(transformed_lines, lines[i + 1])
    /\ i' = i + 1
    /\ pc' = "post_mortem"
    /\ UNCHANGED <<lines, transformed_tree, raw_transformed_line, transformed_line,
                   output_file>>

\* one pass through the try block that raises, up to the call of the
\* debugger in the except clause
TryRaises ==
    /\ pc = "for"
    /\ i < Len(lines)
    /\ \E r \in {TryBlock(lines[i + 1])} :
          /\ IsException(r.transformed_tree)
          /\ _current_line' = lines[i + 1]
          /\ original_tree' = IF IsException(r.original_tree)
                              THEN original_tree ELSE r.original_tree
          /\ tb' = Traceback(r.transformed_tree.exc)
          /\ stdout' = Append(stdout, lines[i + 1])
    /\ i' = i + 1
    /\ pc' = "post_mortem"
    /\ UNCHANGED <<lines, transformed_tree, raw_transformed_line, transformed_line,
                   transformed_lines, output_file>>

\* variant: the except clause leaves the loop once the debugger returns
PostMortemReturns_Breaks ==
    /\ pc = "post_mortem"
    /\ output_file' = Concat(transformed_lines)
    /\ pc' = "exit"
    /\ UNCHANGED <<lines, i, _current_line, original_tree, transformed_tree,
                   raw_transformed_line, transformed_line, transformed_lines,
                   tb, stdout>>

\* the debugger session ends and the except clause with it: the loop goes on
PostMortemReturns ==
    /\ pc = "post_mortem"
    /\ pc' = "for"
    /\ UNCHANGED <<lines, i, _current_line, original_tree, transformed_tree,
                   raw_transformed_line, transformed_line, transformed_lines,
                   tb, stdout, output_file>>

\* the import of pudb or the session itself raises: nothing catches it
PostMortemRaises ==
    /\ pc = "post_mortem"
    /\ pc' = "crash"
    /\ UNCHANGED <<lines, i, _current_line, original_tree, transformed_tree,
                   raw_transformed_line, transformed_line, transformed_lines,
                   tb, stdout, output_file>>

\* the loop is over: writelines(transformed_lines)
WriteOutput ==
    /\ pc = "for"
    /\ i = Len(lines)
    /\ output_file' = Concat(transformed_lines)
    /\ pc' = "exit"
    /\ UNCHANGED <<lines, i, _current_line, original_tree, transformed_tree,
                   raw_transformed_line, transformed_line, transformed_lines,
                   tb, stdout>>

Next ==
    \/ TryCompletes
    \/ TryRaises
    \/ PostMortemReturns
    \/ PostMortemRaises
    \/ WriteOutput

Spec == Init /\ [][Next]_vars

TypeOK ==
    /\ pc \in {"for", "post_mortem", "crash", "exit"}
    /\ i \in 0..Len(lines)
    /\ Len(transformed_lines) <= i

\* ------------------------------------------------- what a state shows
\* print() with no argument ends every pass that completed; a pass that
\* raised printed the line and nothing after it.
BlankPrints(out) == Cardinality({k \in 1..Len(out) : out[k] = <<>>})
Completed == i > 0 /\ stdout[Len(stdout)] = <<>>
Failed == i > 0 /\ stdout[Len(stdout)] # <<>>

\* the pass over _current_line raised and appended nothing
NoLineForCurrent ==
    /\ Failed
    /\ Len(transformed_lines) = BlankPrints(stdout)

\* the pass over _current_line completed and appended text
LineForCurrent(text) ==
    /\ Completed
    /\ Len(transformed_lines) = BlankPrints(stdout)
    /\ transformed_lines[Len(transformed_lines)] = text
    /\ transformed_line = text

RECURSIVE Join(_, _)
Join(ss, sep) ==
    IF ss = <<>> THEN <<>>
    ELSE IF Len(ss) = 1 THEN ss[1]
    ELSE ss[1] \o sep \o Join(Tail(ss), sep)

RECURSIVE Contains(_, _)
Contains(s, sub) ==
    IF Len(s) < Len(sub) THEN FALSE
    ELSE SubSeq(s, 1, Len(sub)) = sub \/ Contains(Tail(s), sub)

T_Arrow == <<" ", "-", ">", " ">>
T_CommaSpace == <<",", " ">>
TypeTexts == {S_int, S_str}

CallableText(params, ret) ==
    S_Callable \o <<"[">> \o params \o T_CommaSpace \o ret \o <<"]">> \o S_Newline
Bracketed(ps) == <<"[">> \o Join(ps, T_CommaSpace) \o <<"]">>

\* the subscripts of a tree whose value is one of the given names
RECURSIVE SubscriptsOf(_, _)
SubscriptsOf(n, names) ==
    CASE n.type \in {"Tuple", "List"} ->
            UNION {SubscriptsOf(n.elements[k].value, names) : k \in 1..Len(n.elements)}
      [] n.type = "BinaryOperation" ->
            SubscriptsOf(n.left, names) \cup SubscriptsOf(n.right, names)
      [] n.type = "Subscript" ->
            (IF n.value.type = "Name" /\ n.value.value \in names THEN {n} ELSE {})
            \cup SubscriptsOf(n.value, names)
            \cup UNION {SubscriptsOf(n.slice[k].slice.value, names) : k \in 1..Len(n.slice)}
      [] n.type = "Module" -> SubscriptsOf(n.body, names)
      [] OTHER -> {}

CurrentTree == parse_module(_current_line)
CurrentParses == i > 0 /\ ~IsException(CurrentTree)

\* ------------------------------------------------------------------ C1
MatchNames == {S_Callable, S_Concatenate}
NoMatchingSubscript ==
    CurrentParses /\ SubscriptsOf(CurrentTree, MatchNames) = {}
NoMarkerText ==
    /\ ~Contains(_current_line, <<"+">>)
    /\ ~Contains(_current_line, S_Marker \o T_CommaSpace)

\* C1 as claimed: every fragment that parses and holds no Callable[...] and
\* no Concatenate[...] subscript comes out byte-identical, also when its
\* text holds "+" or the quoted marker.
C1_RoundTripAnyText ==
    NoMatchingSubscript => LineForCurrent(_current_line)

\* C1 amended: a fragment that parses, holds no Callable[...] and no
\* Concatenate[...] subscript, and whose text holds neither "+" nor the
\* quoted marker followed by a comma and a space, comes out byte-identical.
C1_RoundTrip ==
    (NoMatchingSubscript /\ NoMarkerText) => LineForCurrent(_current_line)

C1_Witness ==
    /\ _current_line = S_Optional \o <<"[">> \o Bracketed(<<S_int, S_str>>)
                       \o T_CommaSpace \o S_int \o <<"]">> \o S_Newline
    /\ LineForCurrent(_current_line)

\* ------------------------------------------------------------------ C2
\* C2: Callable[[P1, ..., Pn], R] with n >= 2 plain names and a plain name
\* R gives the line (P1, ..., Pn) -> R: same elements, same order, ", "
\* between them, one pair of parentheses, no trailing comma.
C2_ListOfNames ==
    \A ps \in SeqsUpTo(TypeTexts, MaxParams), r \in TypeTexts :
        (Len(ps) >= 2 /\ i > 0 /\ _current_line = CallableText(Bracketed(ps), r))
        => LineForCurrent(<<"(">> \o Join(ps, T_CommaSpace) \o <<")">>
                          \o T_Arrow \o r \o S_Newline)

C2_Witness ==
    /\ _current_line = CallableText(Bracketed(<<S_int, S_str>>), S_int)
    /\ LineForCurrent(<<"(">> \o S_int \o T_CommaSpace \o S_str \o <<")">>
                      \o T_Arrow \o S_int \o S_Newline)

\* ------------------------------------------------------------------ C3
\* C3: Callable[P, R] with a bare name P and a plain name R is encoded as
\* ('**', P) + R and comes out as (**P) -> R, with no quote, comma or "+"
\* left.
C3_ParamSpec ==
    \A p \in TypeTexts, r \in TypeTexts :
        (i > 0 /\ _current_line = CallableText(p, r))
        => /\ LineForCurrent(<<"(", "*", "*">> \o p \o <<")">> \o T_Arrow \o r
                             \o S_Newline)
           /\ raw_transformed_line =
                 <<"(">> \o S_Marker \o T_CommaSpace \o p \o <<")", " ", "+", " ">>
                 \o r \o S_Newline
           /\ \A k \in 1..Len(transformed_line) :
                 transformed_line[k] \notin {"'", ",", "+"}

C3_Witness ==
    /\ _current_line = CallableText(S_int, S_str)
    /\ LineForCurrent(<<"(", "*", "*">> \o S_int \o <<")">> \o T_Arrow \o S_str
                      \o S_Newline)

\* ------------------------------------------------------------------ C4
\* C4: Callable[[A], Callable[[B], R]] gives (A) -> (B) -> R, with no
\* Callable[ left and no trailing comma in either parameter list.
C4_NestedReturn ==
    \A a \in TypeTexts, b \in TypeTexts, r \in TypeTexts :
        (i > 0 /\ _current_line =
            CallableText(Bracketed(<<a>>),
                         DropLast(CallableText(Bracketed(<<b>>), r))))
        => LineForCurrent(<<"(">> \o a \o <<")">> \o T_Arrow
                          \o <<"(">> \o b \o <<")">> \o T_Arrow \o r \o S_Newline)

\* ------------------------------------------------------------------ C5
\* a Callable[...] subscript that raises on its own: fewer than two slices,
\* or a first slice that is no name, tuple, ellipsis or list
MalformedCallables(tree) ==
    {n \in SubscriptsOf(tree, {S_Callable}) :
        \/ Len(n.slice) < 2
        \/ n.slice[1].slice.value.type \notin {"Name", "Tuple", "Ellipsis", "List"}}

HasConcatenate ==
    CurrentParses /\ SubscriptsOf(CurrentTree, {S_Concatenate}) # {}

\* C5 as claimed: a fragment with a Concatenate[...] subscript at any depth
\* ends in the unsupported-pattern error and appends no line.
C5_ConcatenateUnsupported ==
    HasConcatenate
    => (NoLineForCurrent /\ tb = Traceback("NotImplementedError"))

\* C5 amended: a fragment with a Concatenate[...] subscript at any depth
\* ends in an error and appends no line; the error is the unsupported-
\* pattern error unless the fragment also holds a malformed Callable[...]
\* subscript, whose own error can come first.
C5_ConcatenateRaises ==
    HasConcatenate
    => /\ NoLineForCurrent
       /\ tb # NoTraceback
       /\ (MalformedCallables(CurrentTree) = {}
              => tb = Traceback("NotImplementedError"))

C5_Witness ==
    /\ _current_line = CallableText(Bracketed(<<S_int>>),
                           S_Concatenate \o <<"[">> \o S_int \o T_CommaSpace
                           \o S_str \o <<"]">>)
    /\ NoLineForCurrent
    /\ tb = Traceback("NotImplementedError")

\* ------------------------------------------------------------------ C6
\* C6: the line of a fragment processed without an error holds no
\* Callable[...] subscript, at whatever depth it stood in the input.
C6_NoCallableLeft ==
    Completed => ~Contains(transformed_line, S_Callable \o <<"[">>)

\* ------------------------------------------------------------------ C7
RECURSIVE TransformedImage(_)
TransformedImage(ls) ==
    IF ls = <<>> THEN <<>>
    ELSE LET v == VisitLine(Head(ls)) IN
         (IF IsException(v) THEN <<>> ELSE <<Finalize(Codegen(v))>>)
         \o TransformedImage(Tail(ls))

\* C7: at every point of the loop the output list holds, in input order,
\* one line for each fragment processed so far that did not raise and none
\* for the others; after the loop this is so for the whole input.
C7_OutputIsImage ==
    /\ transformed_lines = TransformedImage(SubSeq(lines, 1, i))
    /\ Len(transformed_lines) = BlankPrints(stdout)
    /\ pc = "exit" => (i = Len(lines) /\ output_file = Concat(transformed_lines))

C7_Witness ==
    /\ pc = "exit"
    /\ Len(lines) = 3
    /\ IsException(VisitLine(lines[2]))
    /\ Len(transformed_lines) = 2
    /\ transformed_lines[1] # transformed_lines[2]

\* ------------------------------------------------------------------ C8
\* the elements of a list as parse_module gives those of the tuple written
\* with the same items: a lone element gets the comma a one-tuple needs
AsTupleElements(es) ==
    IF Len(es) = 1 /\ es[1].comma = "DEFAULT"
    THEN <<Element(es[1].value, "COMMA")>>
    ELSE es

IsListCallable(tree) ==
    /\ tree.body.type = "Subscript"
    /\ MatchesName(tree.body.value, S_Callable)
    /\ Len(tree.body.slice) = 2
    /\ tree.body.slice[1].slice.value.type = "List"

\* the fragment with the list of a list-shaped Callable written as a tuple
TupleShaped(tree) ==
    [tree EXCEPT !.body.slice[1].slice.value =
        Tuple(AsTupleElements(tree.body.slice[1].slice.value.elements))]

\* C8: Callable[[P1, ..., Pn], R] and Callable[(P1, ..., Pn), R] give the
\* same output line (and when one raises, so does the other).
C8_ListAsTuple ==
    (CurrentParses /\ IsListCallable(CurrentTree))
    => LET twin == TupleShaped(CurrentTree)
           v == VisitLine(Codegen(twin))
       IN  /\ parse_module(Codegen(twin)) = twin
           /\ IF IsException(v) THEN NoLineForCurrent
              ELSE LineForCurrent(Finalize(Codegen(v)))

C8_Witness ==
    /\ _current_line = CallableText(Bracketed(<<S_int>>), S_str)
    /\ LineForCurrent(<<"(">> \o S_int \o <<",", ")">> \o T_Arrow \o S_str \o S_Newline)
    /\ Finalize(Codegen(VisitLine(CallableText(<<"(">> \o S_int \o <<",", ")">>, S_str))))
         = transformed_line

\* ------------------------------------------------------------------ C9
\* C9: a Callable[...] subscript with one slice element, or with three or
\* more, ends the fragment in an error and appends no line.
C9_SliceCount ==
    (CurrentParses
     /\ \E n \in SubscriptsOf(CurrentTree, {S_Callable}) : Len(n.slice) # 2)
    => NoLineForCurrent

\* ----------------------------------------------------------------- C10
\* C10 as claimed: once a fragment has raised, no later fragment is taken
\* up: the fragment that raised is the last one fetched and the only one
\* that raised.
C10_HaltsOnFirstError ==
    tb # NoTraceback => (Failed /\ i = BlankPrints(stdout) + 1)

\* C10 amended: an error does not halt the batch; when the debugger session
\* of the except clause returns the loop goes on, so a run that reaches the
\* write has taken up every fragment, and the run stops early only when the
\* debugger call itself raises.
C10_ContinuesAfterError ==
    /\ pc = "exit" => i = Len(lines)
    /\ pc = "crash" => (Failed /\ tb # NoTraceback /\ output_file = NoText)
    /\ i < Len(lines) => pc \in {"for", "post_mortem", "crash"}

C10_Witness ==
    /\ pc = "exit"
    /\ tb # NoTraceback
    /\ IsException(VisitLine(lines[1]))
    /\ Completed
    /\ Len(transformed_lines) >= 1

====
